---- MODULE Spec2Model ----
(***************************************************************************)
(* Model of the length-delimited message codec of src/src/main.rs:         *)
(* MessageCodec::encode (Message -> bytes appended to a BytesMut) and      *)
(* MessageCodec::decode (bytes at the front of a BytesMut -> Message).     *)
(*                                                                         *)
(* A byte is a number in 0..255 and a BytesMut is a sequence of bytes.    *)
(* decode is called on the receiver's buffer src. The bytes of src come    *)
(* from the receiver's peer, which is either this codec (peer = "codec":  *)
(* encode fills the sender's buffer dst and the byte stream moves chunks  *)
(* of dst to src) or a foreign sender of raw bytes (peer = "raw").        *)
(*                                                                         *)
(* TLC's integers are 32-bit signed, so the u32 values used here stay     *)
(* below 2^31: every byte of every input is in 0..127, so whatever four   *)
(* bytes decode reads as a u32 stay in range. The usize subtraction of    *)
(* decode is modelled by its cases.                                       *)
(***************************************************************************)
EXTENDS Integers, Sequences, FiniteSets, TLC

VARIABLES
    peer,    \* who fills src: "codec" (encode and the byte stream) or "raw" (raw bytes)
    dst,     \* the encoder's output buffer (BytesMut)
    src,     \* the decoder's input buffer (BytesMut)
    op,      \* the last operation: "new", "encode", "decode", "deliver", "receive"
    arg,     \* <<item>> handed to the last encode, <<>> otherwise
    before,  \* the buffer the last encode / decode was called on, as it was before the call
    ret,     \* the outcome of the last encode / decode
    out,     \* Option<Message> of the last decode: <<>> is None, <<item>> is Some(item)
    sent,    \* the items encoded successfully so far, in call order
    taken,   \* the number of bytes the byte stream has removed from the front of dst
    nRecv    \* the number of raw chunks received so far

vars == <<peer, dst, src, op, arg, before, ret, out, sent, taken, nRecv>>

(***************************************************************************)
(* Bounds of the model.                                                    *)
(***************************************************************************)
MaxData == 2
MaxSig == 2
MaxStream == 45  \* bytes encoded in all
MaxRecv == 3     \* raw chunks received in all

(***************************************************************************)
(* Inputs.                                                                 *)
(***************************************************************************)
\* Payloads <<>>, <<3>>, <<3, 4>>, ... and signatures <<>>, <<101>>, <<101, 102>>, ...
Datas == { [i \in 1..n |-> 2 + i] : n \in 0..MaxData }
Sigs == { [i \in 1..n |-> 100 + i] : n \in 0..MaxSig }

\* The five fixed fields other than signature_length: the values of the
\* repository's tests, and values whose bytes all differ.
TestHeader ==
    [version |-> 5, message_type |-> 12, service_id |-> 9,
     payload_length |-> 11, encrypted |-> 10]

Headers ==
    { TestHeader,
      [version |-> 127, message_type |-> 258, service_id |-> 32512,
       payload_length |-> 16909060, encrypted |-> 256] }

Item(sl, h, d, s) ==
    [signature_length |-> sl, version |-> h.version,
     message_type |-> h.message_type, service_id |-> h.service_id,
     payload_length |-> h.payload_length, encrypted |-> h.encrypted,
     data |-> d, signature |-> s]

\* Items whose signature_length is the length of their signature.
ValidItems ==
    { Item(Len(s), h, d, s) :
        h \in Headers, d \in Datas, s \in Sigs }

\* Items whose signature_length is not the length of their signature, as in
\* tests::encode_invalid_message.
InvalidItems ==
    { it \in { Item(sl, TestHeader, <<3>>, s) :
                 sl \in 0..(MaxSig + 1), s \in Sigs } :
        it.signature_length # Len(it.signature) }

Items == ValidItems \cup InvalidItems

\* Raw bytes a peer may send: headers with chosen signature_length bytes
\* (0, 1, 2, 16, 256, 2139062143) and single trailing bytes.
RawHeaders ==
    { sl4 \o <<5, 12, 0, 9, 0, 11, 0, 0, 0, 10, 0>> :
        sl4 \in { <<0, 0, 0, 0>>, <<1, 0, 0, 0>>, <<2, 0, 0, 0>>, <<16, 0, 0, 0>>,
                  <<0, 1, 0, 0>>, <<127, 127, 127, 127>> } }

RawChunks ==
    RawHeaders \cup { <<0>>, <<127>>, <<1, 0, 0, 0, 5, 12, 0>>, <<9, 0, 11, 0, 0, 0, 10, 0>> }

(***************************************************************************)
(* The codec.                                                              *)
(***************************************************************************)
SIZE_OF_WITHOUT_VECS == 2 * 4 + 3 * 2 + 1

\* A faulty to_le_bytes: the most significant byte first.
to_be_bytes(x, n) == [i \in 1..n |-> (x \div (256 ^ (n - i))) % 256]

\* uN::to_le_bytes: the n bytes of x, least significant first.
to_le_bytes(x, n) == [i \in 1..n |-> (x \div (256 ^ (i - 1))) % 256]

\* A faulty from_le_bytes: the most significant byte first.
RECURSIVE from_be_bytes(_)
from_be_bytes(b) ==
    IF b = <<>> THEN 0 ELSE 256 * from_be_bytes(SubSeq(b, 1, Len(b) - 1)) + b[Len(b)]

\* uN::from_le_bytes: the value of the bytes b, least significant first.
RECURSIVE from_le_bytes(_)
from_le_bytes(b) == IF b = <<>> THEN 0 ELSE Head(b) + 256 * from_le_bytes(Tail(b))

\* The slice s[a..b] of Rust (0-based, b exclusive), for a <= b <= len.
Slice(s, a, b) == SubSeq(s, a + 1, b)

\* A faulty advance: one byte short.
advance_short(s, n) == SubSeq(s, n, Len(s))

\* Buf::advance: drops the first n bytes.
advance(s, n) == SubSeq(s, n + 1, Len(s))

\* Whether src.len() - signature_length, 15..delimiter and delimiter.. panic.
\* With signature_length > len the subtraction overflows: a debug build
\* panics there, a release build wraps to a delimiter above len and the
\* slice panics. With a delimiter below 15 the slice 15..delimiter panics.
decode_panics(len, signature_length) ==
    \/ signature_length > len
    \/ len - signature_length < SIZE_OF_WITHOUT_VECS

\* A faulty early return: the short buffer is cleared.
incomplete_clearing(buf) == [ret |-> "Ok(None)", item |-> <<>>, src |-> <<>>]

\* return Ok(None): nothing is decoded and the buffer is not touched.
incomplete(buf) == [ret |-> "Ok(None)", item |-> <<>>, src |-> buf]

\* A faulty argument of src.advance: the signature is forgotten.
consumed_without_signature(data, signature) == SIZE_OF_WITHOUT_VECS + Len(data)

\* The argument of src.advance: the header, the data and the signature.
consumed(data, signature) == SIZE_OF_WITHOUT_VECS + Len(data) + Len(signature)

decode(buf) ==
    IF Len(buf) < SIZE_OF_WITHOUT_VECS
    THEN incomplete(buf)
    ELSE
      LET signature_length == from_le_bytes(Slice(buf, 0, 4))
          version          == buf[4 + 1]
          message_type     == from_le_bytes(Slice(buf, 5, 7))
          service_id       == from_le_bytes(Slice(buf, 7, 9))
          payload_length   == from_le_bytes(Slice(buf, 9, 13))
          encrypted        == from_le_bytes(Slice(buf, 13, 15))
      IN IF decode_panics(Len(buf), signature_length)
         THEN [ret |-> "panic", item |-> <<>>, src |-> buf]
         ELSE
           LET delimiter == Len(buf) - signature_length
               data      == Slice(buf, 15, delimiter)
               signature == Slice(buf, delimiter, Len(buf))
           IN [ret  |-> "Ok(Some)",
               item |-> << [signature_length |-> signature_length,
                            version |-> version,
                            message_type |-> message_type,
                            service_id |-> service_id,
                            payload_length |-> payload_length,
                            encrypted |-> encrypted,
                            data |-> data,
                            signature |-> signature] >>,
               src  |-> advance(buf, consumed(data, signature))]

\* A faulty check of encode: only a signature_length that is too long is refused.
invalid_if_longer(item) == item.signature_length > Len(item.signature)

\* The check of encode: signature_length as usize != signature.len().
invalid(item) == item.signature_length # Len(item.signature)

\* A faulty encode: the signature is written before the data.
encode_signature_first(item, buf) ==
    IF invalid(item)
    THEN [ret |-> "Err", dst |-> buf]
    ELSE [ret |-> "Ok",
          dst |-> buf \o to_le_bytes(item.signature_length, 4)
                      \o to_le_bytes(item.version, 1)
                      \o to_le_bytes(item.message_type, 2)
                      \o to_le_bytes(item.service_id, 2)
                      \o to_le_bytes(item.payload_length, 4)
                      \o to_le_bytes(item.encrypted, 2)
                      \o item.signature
                      \o item.data]

\* A faulty encode: the output buffer is cleared before the frame is written.
encode_clearing(item, buf) ==
    IF invalid(item)
    THEN [ret |-> "Err", dst |-> buf]
    ELSE [ret |-> "Ok",
          dst |-> to_le_bytes(item.signature_length, 4)
                      \o to_le_bytes(item.version, 1)
                      \o to_le_bytes(item.message_type, 2)
                      \o to_le_bytes(item.service_id, 2)
                      \o to_le_bytes(item.payload_length, 4)
                      \o to_le_bytes(item.encrypted, 2)
                      \o item.data
                      \o item.signature]

encode(item, buf) ==
    IF invalid(item)
    THEN [ret |-> "Err", dst |-> buf]
    ELSE [ret |-> "Ok",
          dst |-> buf \o to_le_bytes(item.signature_length, 4)
                      \o to_le_bytes(item.version, 1)
                      \o to_le_bytes(item.message_type, 2)
                      \o to_le_bytes(item.service_id, 2)
                      \o to_le_bytes(item.payload_length, 4)
                      \o to_le_bytes(item.encrypted, 2)
                      \o item.data
                      \o item.signature]

(***************************************************************************)
(* The state machine.                                                      *)
(***************************************************************************)
Init ==
    /\ peer \in {"codec", "raw"}
    /\ dst = <<>>
    /\ src = <<>>
    /\ op = "new"
    /\ arg = <<>>
    /\ before = <<>>
    /\ ret = "none"
    /\ out = <<>>
    /\ sent = <<>>
    /\ taken = 0
    /\ nRecv = 0

\* A panic of decode ends the thread that drives the codec.
Running == ret # "panic"

\* codec.encode(item, &mut dst)
Encode(item) ==
    /\ Running
    /\ peer = "codec"
    /\ taken + Len(dst) + SIZE_OF_WITHOUT_VECS + Len(item.data) + Len(item.signature) <= MaxStream
    /\ LET r == encode(item, dst)
       IN /\ dst' = r.dst
          /\ ret' = r.ret
          /\ sent' = IF r.ret = "Ok" THEN Append(sent, item) ELSE sent
    /\ op' = "encode"
    /\ arg' = <<item>>
    /\ before' = dst
    /\ out' = <<>>
    /\ UNCHANGED <<peer, src, taken, nRecv>>

\* codec.decode(&mut src)
Decode ==
    /\ Running
    /\ LET r == decode(src)
       IN /\ src' = r.src
          /\ ret' = r.ret
          /\ out' = r.item
    /\ op' = "decode"
    /\ arg' = <<>>
    /\ before' = src
    /\ UNCHANGED <<peer, dst, sent, taken, nRecv>>

\* The byte stream moves the first k bytes of dst to the end of src.
Deliver(k) ==
    /\ Running
    /\ k \in 1..Len(dst)
    /\ src' = src \o SubSeq(dst, 1, k)
    /\ dst' = SubSeq(dst, k + 1, Len(dst))
    /\ taken' = taken + k
    /\ op' = "deliver"
    /\ arg' = <<>>
    /\ before' = <<>>
    /\ ret' = "none"
    /\ out' = <<>>
    /\ UNCHANGED <<peer, sent, nRecv>>

\* A peer's raw bytes arrive in src.
Receive(chunk) ==
    /\ Running
    /\ peer = "raw"
    /\ nRecv < MaxRecv
    /\ src' = src \o chunk
    /\ nRecv' = nRecv + 1
    /\ op' = "receive"
    /\ arg' = <<>>
    /\ before' = <<>>
    /\ ret' = "none"
    /\ out' = <<>>
    /\ UNCHANGED <<peer, dst, sent, taken>>

Next ==
    \/ \E item \in Items : Encode(item)
    \/ Decode
    \/ \E k \in 1..Len(dst) : Deliver(k)
    \/ \E chunk \in RawChunks : Receive(chunk)

Spec == Init /\ [][Next]_vars

(***************************************************************************)
(* Properties.                                                             *)
(***************************************************************************)
\* The frame of an item: what encode writes into an empty buffer.
FrameOf(item) == encode(item, <<>>).dst

\* The frames of a sequence of items, one after the other.
RECURSIVE Frames(_)
Frames(items) ==
    IF items = <<>> THEN <<>> ELSE FrameOf(Head(items)) \o Frames(Tail(items))

\* The last decode was called on all the bytes encoded so far, and on nothing else.
DecodedWholeStream ==
    /\ op = "decode"
    /\ peer = "codec"
    /\ dst = <<>>
    /\ Len(before) = taken

\* The last decode was called with nothing consumed before it: src held the
\* first bytes of the encoded stream.
DecodedStreamPrefix ==
    /\ op = "decode"
    /\ peer = "codec"
    /\ Len(before) = taken

\* C1: round trip. An item whose signature_length is the length of its
\* signature is encoded into the empty buffer with success, and one decode
\* call on exactly the bytes encode wrote returns that item, equal in all
\* eight fields, whether or not payload_length is the length of data.
RoundTrip ==
    /\ (op = "encode" /\ before = <<>> /\ arg[1].signature_length = Len(arg[1].signature))
          => ret = "Ok"
    /\ (DecodedWholeStream /\ Len(sent) = 1)
          => (ret = "Ok(Some)" /\ out = <<sent[1]>>)

RoundTripWitness ==
    /\ DecodedWholeStream
    /\ Len(sent) = 1
    /\ ret = "Ok(Some)"
    /\ out = <<sent[1]>>
    /\ Len(out[1].data) = 2
    /\ Len(out[1].signature) = 2
    /\ out[1].payload_length # Len(out[1].data)
    /\ out[1].version = 127

\* C2: decode never fails. On every buffer of 15 or more bytes, whatever
\* its header says, decode returns a Message.
DecodeNeverFails ==
    (op = "decode" /\ Len(before) >= 15) => ret = "Ok(Some)"

\* C3: encode validation. For an item whose signature_length is not the
\* length of its signature, whatever the output buffer holds, encode returns
\* the error and the output buffer is unchanged.
EncodeValidation ==
    (op = "encode" /\ arg[1].signature_length # Len(arg[1].signature))
        => (ret = "Err" /\ dst = before)

EncodeValidationWitness ==
    /\ op = "encode"
    /\ arg[1].signature_length < Len(arg[1].signature)
    /\ ret = "Err"
    /\ before # <<>>
    /\ dst = before

\* C4: incompleteness. On a buffer of 0 to 14 bytes decode returns Ok(None)
\* and leaves the buffer as it was: same length, same bytes.
Incompleteness ==
    (op = "decode" /\ Len(before) < 15)
        => (ret = "Ok(None)" /\ out = <<>> /\ src = before)

IncompletenessWitness ==
    /\ op = "decode"
    /\ Len(before) = 14
    /\ ret = "Ok(None)"
    /\ src = before

\* C5: wire layout. An item that passes the check is encoded with success,
\* and the bytes appended are 15 + len(data) + len(signature) long:
\* signature_length in 4 little-endian bytes, version in 1, message_type in
\* 2, service_id in 2, payload_length in 4, encrypted in 2, then the data,
\* then the signature.
WireLayout ==
    /\ (op = "encode" /\ arg[1].signature_length = Len(arg[1].signature)) => ret = "Ok"
    /\ (op = "encode" /\ ret = "Ok") =>
          LET m  == arg[1]
              f  == SubSeq(dst, Len(before) + 1, Len(dst))
              nd == Len(m.data)
          IN /\ Len(f) = 15 + nd + Len(m.signature)
             /\ SubSeq(f, 1, 4) = << m.signature_length % 256,
                                     (m.signature_length \div 256) % 256,
                                     (m.signature_length \div 65536) % 256,
                                     (m.signature_length \div 16777216) % 256 >>
             /\ f[5] = m.version
             /\ SubSeq(f, 6, 7) = << m.message_type % 256, m.message_type \div 256 >>
             /\ SubSeq(f, 8, 9) = << m.service_id % 256, m.service_id \div 256 >>
             /\ SubSeq(f, 10, 13) = << m.payload_length % 256,
                                       (m.payload_length \div 256) % 256,
                                       (m.payload_length \div 65536) % 256,
                                       (m.payload_length \div 16777216) % 256 >>
             /\ SubSeq(f, 14, 15) = << m.encrypted % 256, m.encrypted \div 256 >>
             /\ SubSeq(f, 16, 15 + nd) = m.data
             /\ SubSeq(f, 16 + nd, Len(f)) = m.signature

WireLayoutWitness ==
    /\ op = "encode"
    /\ ret = "Ok"
    /\ arg[1].message_type = 258
    /\ arg[1].payload_length = 16909060
    /\ Len(arg[1].data) = 2
    /\ Len(arg[1].signature) = 2
    /\ SubSeq(dst, Len(before) + 1, Len(dst)) =
          <<2, 0, 0, 0, 127, 2, 1, 0, 127, 4, 3, 2, 1, 0, 1, 3, 4, 101, 102>>

\* C6: consumption. When decode returns a Message it has removed exactly
\* 15 + len(data) + len(signature) bytes from the front of the buffer: what
\* is left are the bytes that followed them.
Consumption ==
    (op = "decode" /\ ret = "Ok(Some)") =>
        LET n == 15 + Len(out[1].data) + Len(out[1].signature)
        IN /\ n <= Len(before)
           /\ Len(src) = Len(before) - n
           /\ src = SubSeq(before, n + 1, Len(before))

ConsumptionWitness ==
    /\ op = "decode"
    /\ ret = "Ok(Some)"
    /\ Len(out[1].data) > 0
    /\ Len(out[1].signature) > 0
    /\ Len(src) = Len(before) - (15 + Len(out[1].data) + Len(out[1].signature))

\* C7: encode appends. After an encode that succeeds the output buffer is
\* what it held before followed by the frame of the item, and as long as
\* nothing is taken out of it the buffer is the frames of the items encoded,
\* in call order.
PureAppend ==
    /\ (op = "encode" /\ ret = "Ok") => dst = before \o FrameOf(arg[1])
    /\ (peer = "codec" /\ taken <= Len(Frames(sent)))
          => dst = SubSeq(Frames(sent), taken + 1, Len(Frames(sent)))

PureAppendWitness ==
    /\ op = "encode"
    /\ ret = "Ok"
    /\ taken = 0
    /\ Len(sent) = 3
    /\ sent[1] # sent[2]
    /\ dst = FrameOf(sent[1]) \o FrameOf(sent[2]) \o FrameOf(sent[3])

\* C8: chunked delivery. While one frame arrives in chunks, a decode call
\* on fewer than 15 bytes returns Ok(None), and a decode call on 15 or more
\* bytes returns a Message, even when the frame has not arrived in full.
ChunkedDelivery ==
    (DecodedStreamPrefix /\ Len(sent) = 1) =>
        /\ (Len(before) < 15 => ret = "Ok(None)")
        /\ (Len(before) >= 15 => ret = "Ok(Some)")

\* C9: the split of decode. When decode returns a Message from a buffer of
\* L bytes, the six header fields are the little-endian values at offsets
\* 0, 4, 5, 7, 9 and 13, the signature is the last signature_length bytes,
\* the data is the bytes from offset 15 to offset L - signature_length, and
\* payload_length is the header's value, whatever the length of data.
DecodeSplit ==
    (op = "decode" /\ ret = "Ok(Some)") =>
        LET L == Len(before)
            m == out[1]
        IN /\ L >= 15
           /\ m.signature_length =
                 before[1] + 256 * before[2] + 65536 * before[3] + 16777216 * before[4]
           /\ m.version = before[5]
           /\ m.message_type = before[6] + 256 * before[7]
           /\ m.service_id = before[8] + 256 * before[9]
           /\ m.payload_length =
                 before[10] + 256 * before[11] + 65536 * before[12] + 16777216 * before[13]
           /\ m.encrypted = before[14] + 256 * before[15]
           /\ Len(m.signature) = m.signature_length
           /\ m.signature = SubSeq(before, L - m.signature_length + 1, L)
           /\ m.data = SubSeq(before, 16, L - m.signature_length)

DecodeSplitWitness ==
    /\ op = "decode"
    /\ ret = "Ok(Some)"
    /\ out[1].message_type > 255
    /\ out[1].signature_length = 2
    /\ Len(out[1].data) > 0
    /\ out[1].payload_length # Len(out[1].data)
    /\ out[1].signature = SubSeq(before, Len(before) - 1, Len(before))

\* The parts of C10: every decode call that returns a Message leaves the
\* buffer empty. Called on two or more frames one after the other, decode returns one
\* Message with the header of the first frame, whose data is every byte
\* after that header up to the last signature_length bytes, and the decode
\* call that follows returns Ok(None).
DecodeDrains ==
    (op = "decode" /\ ret = "Ok(Some)") => src = <<>>

DecodeAbsorbs ==
    (DecodedWholeStream /\ Len(sent) >= 2) =>
        LET first == sent[1]
            all   == Frames(sent)
        IN /\ before = all
           /\ ret = "Ok(Some)"
           /\ out[1].signature_length = first.signature_length
           /\ out[1].version = first.version
           /\ out[1].message_type = first.message_type
           /\ out[1].service_id = first.service_id
           /\ out[1].payload_length = first.payload_length
           /\ out[1].encrypted = first.encrypted
           /\ out[1].data = SubSeq(all, 16, Len(all) - first.signature_length)
           /\ Len(out[1].data) >= Len(first.data) + 15
           /\ src = <<>>

NextDecodeIncomplete ==
    (op = "decode" /\ ret = "Ok(Some)" /\ op' = "decode") => ret' = "Ok(None)"

\* C10, in full: a decode that returns a Message drains the buffer, absorbs
\* the later frames into the data of the first, and is followed by Ok(None).
AbsorbsLaterFrames ==
    /\ [](DecodeDrains /\ DecodeAbsorbs)
    /\ [][NextDecodeIncomplete]_vars

AbsorbsLaterFramesWitness ==
    /\ DecodedWholeStream
    /\ Len(sent) = 2
    /\ sent[1].version # sent[2].version
    /\ Len(sent[1].signature) = 1
    /\ Len(sent[2].signature) = 2
    /\ ret = "Ok(Some)"
    /\ out[1].version = sent[1].version
    /\ Len(out[1].signature) = 1
    /\ src = <<>>

====
